---- MODULE Spec2Model ----
(***************************************************************************)
(* Contact-request and rating workflow of src/models/ContactRequest.js:   *)
(* the ContactRequest schema, POST /contact-agent and POST /rate/:agentId. *)
(* Every await of a handler is a suspension point of the event loop, so    *)
(* every await is one action: the store (or mail) call takes effect and    *)
(* the handler runs on to its next await or to its response.               *)
(***************************************************************************)
EXTENDS Integers, Sequences, FiniteSets, TLC

(* ---------------- bounds ---------------- *)
NReq == 2          \* number of HTTP requests served in one behaviour
MaxFaults == 1     \* number of store calls that may reject in one behaviour

(* ---------------- identifiers ---------------- *)
\* "" is a missing body field, "bad" a string that is no ObjectId,
\* "u0" / "p0" well-formed ObjectIds that no record has.
ExistingClients == {"c1", "c2"}
ExistingAgents == {"a1", "a2"}
ExistingUsers == ExistingClients \cup ExistingAgents
ExistingProperties == {"p1", "p2"}
WellFormedIds == ExistingUsers \cup ExistingProperties \cup {"u0", "p0"}

\* role and unlockedAgents of a User record
Role(u) == IF u \in ExistingAgents THEN "agent" ELSE "client"
UnlockedAgents(u) == IF u = "c1" THEN {"a1"} ELSE {}

\* contactRequestSchema: client, agent, property are ObjectId paths, so a
\* query or a document with another value fails to cast.
CastsToObjectId(id) == id \in WellFormedIds

(* ---------------- JavaScript values of req.body.rating ---------------- *)
\* t = "undef" (field absent / null), "num" (JSON number) or "str" (form
\* field).  A number is sign, integer part and "has a fractional part".
Digits == <<"0", "1", "2", "3", "4", "5", "6", "7", "8", "9">>
IsDigit(c) == \E i \in 1..10 : Digits[i] = c
DigitVal(c) == (CHOOSE i \in 1..10 : Digits[i] = c) - 1

JsUndef == [t |-> "undef", neg |-> FALSE, int |-> 0, frac |-> FALSE, s |-> <<>>]
JsNum(neg, int, frac) == [t |-> "num", neg |-> neg, int |-> int, frac |-> frac, s |-> <<>>]
JsStr(s) == [t |-> "str", neg |-> FALSE, int |-> 0, frac |-> FALSE, s |-> s]

NaN == [nan |-> TRUE, neg |-> FALSE, int |-> 0, frac |-> FALSE]
Num(neg, int, frac) == [nan |-> FALSE, neg |-> neg, int |-> int, frac |-> frac]

\* length of the longest prefix of s made of digits
RECURSIVE DigitPrefixLen(_)
DigitPrefixLen(s) ==
  IF s = <<>> \/ ~IsDigit(Head(s)) THEN 0 ELSE 1 + DigitPrefixLen(Tail(s))

\* value of a sequence of digits
RECURSIVE DigitsValue(_, _)
DigitsValue(s, acc) ==
  IF s = <<>> THEN acc ELSE DigitsValue(Tail(s), acc * 10 + DigitVal(Head(s)))

AllDigits(s) == DigitPrefixLen(s) = Len(s)
SomeNonZero(s) == \E i \in 1..Len(s) : s[i] # "0"

\* unsigned decimal literal: digits, digits "." digits*, "." digits
UnsignedToNumber(s) ==
  LET n == DigitPrefixLen(s)
      rest == SubSeq(s, n + 1, Len(s))
  IN IF n = Len(s) /\ n > 0 THEN Num(FALSE, DigitsValue(s, 0), FALSE)
     ELSE IF rest # <<>> /\ Head(rest) = "." /\ AllDigits(Tail(rest))
               /\ (n > 0 \/ Len(rest) > 1)
          THEN Num(FALSE, DigitsValue(SubSeq(s, 1, n), 0), SomeNonZero(Tail(rest)))
          ELSE NaN

\* Number(string): "" is 0, a signed decimal literal its value, else NaN
StringToNumber(s) ==
  IF s = <<>> THEN Num(FALSE, 0, FALSE)
  ELSE IF Head(s) = "-"
       THEN LET u == UnsignedToNumber(Tail(s))
            IN IF u.nan THEN NaN ELSE Num(TRUE, u.int, u.frac)
       ELSE UnsignedToNumber(s)

\* the ToNumber conversion the relational operators apply to an operand
ToNumber(v) ==
  CASE v.t = "undef" -> Num(FALSE, 0, FALSE)      \* null < 1 compares 0
    [] v.t = "num" -> Num(v.neg, v.int, v.frac)
    [] OTHER -> StringToNumber(v.s)

\* !v is false exactly for a truthy v
Truthy(v) ==
  CASE v.t = "undef" -> FALSE
    [] v.t = "num" -> v.int # 0 \/ v.frac
    [] OTHER -> v.s # <<>>

\* x < 1 and x > 5; every comparison with NaN is false
LessThan1(x) == ~x.nan /\ (IF x.neg THEN TRUE ELSE x.int < 1)
GreaterThan5(x) == ~x.nan /\ ~x.neg /\ (x.int > 5 \/ (x.int = 5 /\ x.frac))

\* mutant: the upper bound is not checked
RatingRejectedNoUpper(v) == ~Truthy(v) \/ LessThan1(ToNumber(v))

\* line 187: !rating || rating < 1 || rating > 5
RatingRejected(v) ==
  ~Truthy(v) \/ LessThan1(ToNumber(v)) \/ GreaterThan5(ToNumber(v))

\* parseInt(string): optional sign, then the leading digits; none gives NaN
ParseIntString(s) ==
  LET neg == s # <<>> /\ Head(s) = "-"
      body == IF neg THEN Tail(s) ELSE s
      n == DigitPrefixLen(body)
  IN IF n = 0 THEN NaN ELSE Num(neg, DigitsValue(SubSeq(body, 1, n), 0), FALSE)

\* parseInt(v) converts v to a string first
ParseInt(v) ==
  CASE v.t = "undef" -> NaN
    [] v.t = "num" -> Num(v.neg, v.int, FALSE)
    [] OTHER -> ParseIntString(v.s)

\* the integer a number without fractional part stands for
IntOf(x) == IF x.neg THEN 0 - x.int ELSE x.int


(* ---------------- aggregate arithmetic ---------------- *)
Abs(x) == IF x < 0 THEN 0 - x ELSE x

RECURSIVE Gcd(_, _)
Gcd(a, b) == IF b = 0 THEN a ELSE Gcd(b, a % b)

\* totalRating / allRatings.length as the value of the quotient: a fraction
\* in lowest terms, so 12 / 3 and 8 / 2 are the same rating.
Quotient(n, d) ==
  LET g == Gcd(Abs(n), d)
  IN IF g = 0 THEN <<0, 1>> ELSE <<n \div g, d \div g>>

\* allRatings.reduce((sum, r) => sum + r.rating, 0)
RECURSIVE SumRatings(_)
SumRatings(rs) == IF rs = <<>> THEN 0 ELSE Head(rs).rating + SumRatings(Tail(rs))

(* ---------------- state ---------------- *)
VARIABLES
  contactRequests,  \* the ContactRequest collection, in insertion order
  ratings,          \* the Rating collection, in insertion order
  users,            \* rating and totalRatings of every User record
  req,              \* per request: its inputs, locals, position and response
  faults            \* store calls that have rejected so far

vars == <<contactRequests, ratings, users, req, faults>>

Reqs == 1..NReq

\* const adminEmails = [...]
adminEmails == <<"anthonyajibola65@gmail.com", "Kennethuwota12@gmail.com">>

\* a User record as far as the handlers read and write it
NewUser == [rating |-> <<0, 1>>, totalRatings |-> 0]

NullDoc == [found |-> FALSE, rating |-> <<0, 1>>, totalRatings |-> 0]

IdleReq ==
  [kind |-> "none", pc |-> "idle", user |-> "", agentId |-> "", propertyId |-> "",
   rating |-> JsUndef, client |-> "null", agent |-> "null", property |-> "null",
   agentDoc |-> NullDoc, avgRating |-> <<0, 1>>, total |-> 0, mailIdx |-> 0,
   resp |-> "none", before |-> {}, dupAtStart |-> FALSE, seen |-> {}, log |-> <<>>]

Ev(e, a) == [ev |-> e, arg |-> a]

Init ==
  /\ contactRequests = <<>>
  /\ ratings = <<>>
  /\ users = [u \in ExistingUsers |-> NewUser]
  /\ req = [r \in Reqs |-> IdleReq]
  /\ faults = 0

(* ---------------- request inputs ---------------- *)
\* req.session.user._id is set by the login, agentId / propertyId / rating
\* by the caller.
ContactInputs ==
  {[user |-> "c1", agentId |-> a, propertyId |-> "p1"] : a \in {"a1", "", "u0", "bad"}}
  \cup {[user |-> "c1", agentId |-> "a1", propertyId |-> p] : p \in {"p2", ""}}

\* absent, the number 0, and the form fields "6", "5", "7a", "a"
RatingValues ==
  {JsUndef, JsNum(FALSE, 0, FALSE), JsStr(<<"6">>), JsStr(<<"5">>),
   JsStr(<<"7", "a">>), JsStr(<<"a">>)}

RateInputs ==
  {[user |-> "c1", agentId |-> "a1", propertyId |-> "p1", rating |-> v] : v \in RatingValues}
  \cup {[user |-> "c1", agentId |-> "a1", propertyId |-> "p2", rating |-> JsStr(<<"3">>)],
        [user |-> "c1", agentId |-> "u0", propertyId |-> "p1", rating |-> JsStr(<<"5">>)]}

(* ---------------- store operations ---------------- *)
SameTriple(d, c, a, p) == d.client = c /\ d.agent = a /\ d.property = p

\* Model.findOne({client, agent, property}): is there a matching document
FindOne(coll, c, a, p) == \E i \in 1..Len(coll) : SameTriple(coll[i], c, a, p)

\* the filter of findOne casts: it rejects when a value is no ObjectId
FilterCasts(c, a, p) == CastsToObjectId(c) /\ CastsToObjectId(a) /\ CastsToObjectId(p)

\* User.findById(id) / Property.findById(id): the id found, or "null"
FindUserById(id) == IF id \in ExistingUsers THEN id ELSE "null"
FindPropertyById(id) == IF id \in ExistingProperties THEN id ELSE "null"

\* mutant: the read is not filtered by agent
FindByAgentUnfiltered(coll, a) == coll

\* Rating.find({agent: agentId})
RECURSIVE FindByAgent(_, _)
FindByAgent(coll, a) ==
  IF coll = <<>> THEN <<>>
  ELSE IF Head(coll).agent = a THEN <<Head(coll)>> \o FindByAgent(Tail(coll), a)
       ELSE FindByAgent(Tail(coll), a)

\* mutant: the document is created as already contacted
NewContactRequestContacted(c, a, p, r) ==
  [client |-> c, agent |-> a, property |-> p, status |-> "contacted", notes |-> "",
   by |-> r]

\* new ContactRequest({client, agent, property}) with the schema defaults
NewContactRequest(c, a, p, r) ==
  [client |-> c, agent |-> a, property |-> p, status |-> "pending", notes |-> "",
   by |-> r]

\* contactRequest.save(): the schema declares no unique index
SaveContactRequest(coll, doc) == Append(coll, doc)

\* mutant: the client of the document is taken from the request, not from
\* the session
NewRatingForAgent(c, a, p, n, r) ==
  [client |-> a, agent |-> a, property |-> p, rating |-> n, by |-> r]

\* new Rating({client, agent, property, rating: parseInt(rating), comment})
NewRating(c, a, p, n, r) ==
  [client |-> c, agent |-> a, property |-> p, rating |-> n, by |-> r]

\* newRating.save(): a Number path does not take NaN
RatingCasts(x) == ~x.nan
SaveRating(coll, doc) == Append(coll, doc)

(* ---------------- responses ---------------- *)
\* the request responds with code and its handler returns: its locals
\* (client, agent, property, allRatings, ...) go out of scope
Respond(q, code) ==
  [q EXCEPT !.pc = "done", !.resp = code, !.log = Append(@, Ev("respond", code)),
            !.client = "null", !.agent = "null", !.property = "null",
            !.agentDoc = NullDoc, !.avgRating = <<0, 1>>, !.total = 0, !.mailIdx = 0]

Logged(q, e, a) == [q EXCEPT !.log = Append(@, Ev(e, a))]

\* history: the collection holds a document for the triple of the inputs
TripleStored(coll, in) ==
  \E i \in 1..Len(coll) :
    /\ coll[i].client = in.user
    /\ coll[i].agent = in.agentId
    /\ coll[i].property = in.propertyId

\* the requests that have responded
Done == {x \in Reqs : req[x].pc = "done"}

\* requests take the slots in order, which fixes nothing but their names
MayStart(r) == req[r].pc = "idle" /\ (IF r = 1 THEN TRUE ELSE req[r - 1].pc # "idle")

(* ---------------- POST /contact-agent ---------------- *)
\* mutant: the body is not validated before the first query
ContactStartUnvalidated(r, in) ==
  /\ MayStart(r)
  /\ req' = [req EXCEPT ![r] =
               [@ EXCEPT !.kind = "contact", !.user = in.user,
                         !.agentId = in.agentId, !.propertyId = in.propertyId,
                         !.before = Done,
                         !.dupAtStart = TripleStored(contactRequests, in),
                         !.pc = "c_findOne"]]
  /\ UNCHANGED <<contactRequests, ratings, users, faults>>

\* lines 73-80: body validation, then the first query is issued
ContactStart(r, in) ==
  /\ MayStart(r)
  /\ LET q == [req[r] EXCEPT !.kind = "contact", !.user = in.user,
                             !.agentId = in.agentId, !.propertyId = in.propertyId,
                             !.before = Done,
                             !.dupAtStart = TripleStored(contactRequests, in)]
     IN IF in.agentId = "" \/ in.propertyId = ""
        THEN /\ req' = [req EXCEPT ![r] = Respond(q, "400 missing")]
        ELSE /\ req' = [req EXCEPT ![r] = [q EXCEPT !.pc = "c_findOne"]]
  /\ UNCHANGED <<contactRequests, ratings, users, faults>>

\* mutant: the filter names agent and property the wrong way round
ExistingRequestSwapped(user, agentId, propertyId) ==
  FindOne(contactRequests, user, propertyId, agentId)

\* lines 83-87: the filter of the duplicate lookup
ExistingRequest(user, agentId, propertyId) ==
  FindOne(contactRequests, user, agentId, propertyId)

\* mutant: the duplicate branch responds without returning
ContactFindOneNoReturn(r) ==
  /\ req[r].pc = "c_findOne"
  /\ LET q == Logged(req[r], "ContactRequest.findOne", "")
     IN IF ~FilterCasts(q.user, q.agentId, q.propertyId)
        THEN req' = [req EXCEPT ![r] = Respond(q, "500")]
        ELSE IF ExistingRequest(q.user, q.agentId, q.propertyId)
        THEN req' = [req EXCEPT ![r] =
                       [Logged(q, "respond", "400 duplicate") EXCEPT
                          !.resp = "400 duplicate", !.pc = "c_findClient"]]
        ELSE req' = [req EXCEPT ![r] = [q EXCEPT !.pc = "c_findClient"]]
  /\ UNCHANGED <<contactRequests, ratings, users, faults>>

\* lines 83-91: await ContactRequest.findOne, duplicate check
ContactFindOne(r) ==
  /\ req[r].pc = "c_findOne"
  /\ LET q == Logged(req[r], "ContactRequest.findOne", "")
     IN IF ~FilterCasts(q.user, q.agentId, q.propertyId)
        THEN req' = [req EXCEPT ![r] = Respond(q, "500")]
        ELSE IF ExistingRequest(q.user, q.agentId, q.propertyId)
        THEN req' = [req EXCEPT ![r] = Respond(q, "400 duplicate")]
        ELSE req' = [req EXCEPT ![r] = [q EXCEPT !.pc = "c_findClient"]]
  /\ UNCHANGED <<contactRequests, ratings, users, faults>>

\* line 94: await User.findById(req.session.user._id)
ContactFindClient(r) ==
  /\ req[r].pc = "c_findClient"
  /\ req' = [req EXCEPT ![r] = [Logged(@, "User.findById", @.user) EXCEPT
                                  !.client = FindUserById(req[r].user),
                                  !.pc = "c_findAgent"]]
  /\ UNCHANGED <<contactRequests, ratings, users, faults>>

\* line 95: await User.findById(agentId)
ContactFindAgent(r) ==
  /\ req[r].pc = "c_findAgent"
  /\ req' = [req EXCEPT ![r] = [Logged(@, "User.findById", @.agentId) EXCEPT
                                  !.agent = FindUserById(req[r].agentId),
                                  !.pc = "c_findProperty"]]
  /\ UNCHANGED <<contactRequests, ratings, users, faults>>

\* lines 96-107: await Property.findById, the 404 check, the new document
ContactFindProperty(r) ==
  /\ req[r].pc = "c_findProperty"
  /\ LET q == [Logged(req[r], "Property.findById", req[r].propertyId) EXCEPT
                 !.property = FindPropertyById(req[r].propertyId)]
     IN IF q.client = "null" \/ q.agent = "null" \/ q.property = "null"
        THEN /\ req' = [req EXCEPT ![r] = Respond(q, "404")]
        ELSE /\ req' = [req EXCEPT ![r] = [q EXCEPT !.pc = "c_save"]]
  /\ UNCHANGED <<contactRequests, ratings, users, faults>>

\* line 109: await contactRequest.save(); lines 112-128 prepare the mail
ContactSave(r) ==
  /\ req[r].pc = "c_save"
  /\ contactRequests' = SaveContactRequest(contactRequests,
        NewContactRequest(req[r].client, req[r].agent, req[r].property, r))
  /\ req' = [req EXCEPT ![r] = [Logged(@, "ContactRequest.save", "") EXCEPT
                                  !.pc = "c_mail", !.mailIdx = 1]]
  /\ UNCHANGED <<ratings, users, faults>>

\* mutant: a rejected sendMail is not caught inside the loop and reaches
\* the catch block of the handler
ContactSendMailUncaught(r, ok) ==
  /\ req[r].pc = "c_mail"
  /\ LET q == Logged(req[r], IF ok THEN "sendMail ok" ELSE "sendMail failed",
                     adminEmails[req[r].mailIdx])
     IN IF ~ok
        THEN req' = [req EXCEPT ![r] = Respond(q, "500")]
        ELSE IF q.mailIdx = Len(adminEmails)
        THEN req' = [req EXCEPT ![r] = Respond(q, "200")]
        ELSE req' = [req EXCEPT ![r] = [q EXCEPT !.mailIdx = @ + 1]]
  /\ UNCHANGED <<contactRequests, ratings, users, faults>>

\* mutant: the loop stops at the first rejected sendMail
ContactSendMailStopsOnFailure(r, ok) ==
  /\ req[r].pc = "c_mail"
  /\ LET q == Logged(req[r], IF ok THEN "sendMail ok" ELSE "sendMail failed",
                     adminEmails[req[r].mailIdx])
     IN IF ~ok \/ q.mailIdx = Len(adminEmails)
        THEN req' = [req EXCEPT ![r] = Respond(q, "200")]
        ELSE req' = [req EXCEPT ![r] = [q EXCEPT !.mailIdx = @ + 1]]
  /\ UNCHANGED <<contactRequests, ratings, users, faults>>

\* lines 130-143: one pass of the loop; sendMail resolves (ok) or rejects and
\* is caught; after the last recipient the success response is sent
ContactSendMail(r, ok) ==
  /\ req[r].pc = "c_mail"
  /\ LET q == Logged(req[r], IF ok THEN "sendMail ok" ELSE "sendMail failed",
                     adminEmails[req[r].mailIdx])
     IN IF q.mailIdx = Len(adminEmails)
        THEN /\ req' = [req EXCEPT ![r] = Respond(q, "200")]
        ELSE /\ req' = [req EXCEPT ![r] = [q EXCEPT !.mailIdx = @ + 1]]
  /\ UNCHANGED <<contactRequests, ratings, users, faults>>

(* ---------------- POST /rate/:agentId ---------------- *)
\* lines 181-190: rating validation, then the first query is issued
RateStart(r, in) ==
  /\ MayStart(r)
  /\ LET q == [req[r] EXCEPT !.kind = "rate", !.user = in.user,
                             !.agentId = in.agentId, !.propertyId = in.propertyId,
                             !.rating = in.rating, !.before = Done,
                             !.dupAtStart = TripleStored(ratings, in)]
     IN IF RatingRejected(in.rating)
        THEN /\ req' = [req EXCEPT ![r] = Respond(q, "invalid rating")]
        ELSE /\ req' = [req EXCEPT ![r] = [q EXCEPT !.pc = "r_findOne"]]
  /\ UNCHANGED <<contactRequests, ratings, users, faults>>

\* mutant: the filter names agent and property the wrong way round
ExistingRatingSwapped(user, agentId, propertyId) ==
  FindOne(ratings, user, propertyId, agentId)

\* lines 193-197: the filter of the duplicate lookup
ExistingRating(user, agentId, propertyId) ==
  FindOne(ratings, user, agentId, propertyId)

\* lines 193-202: await Rating.findOne, duplicate check
RateFindOne(r) ==
  /\ req[r].pc = "r_findOne"
  /\ LET q == Logged(req[r], "Rating.findOne", "")
     IN IF ~FilterCasts(q.user, q.agentId, q.propertyId)
        THEN req' = [req EXCEPT ![r] = Respond(q, "error")]
        ELSE IF ExistingRating(q.user, q.agentId, q.propertyId)
        THEN req' = [req EXCEPT ![r] = Respond(q, "duplicate rating")]
        ELSE req' = [req EXCEPT ![r] = [q EXCEPT !.pc = "r_save"]]
  /\ UNCHANGED <<contactRequests, ratings, users, faults>>

\* lines 205-213: new Rating with parseInt(rating), await newRating.save()
RateSave(r) ==
  /\ req[r].pc = "r_save"
  /\ LET q == Logged(req[r], "Rating.save", "")
         n == ParseInt(q.rating)
     IN IF ~RatingCasts(n)
        THEN /\ req' = [req EXCEPT ![r] = Respond(q, "error")]
             /\ ratings' = ratings
        ELSE /\ req' = [req EXCEPT ![r] = [q EXCEPT !.pc = "r_findAgent"]]
             /\ ratings' = SaveRating(ratings,
                   NewRating(q.user, q.agentId, q.propertyId, IntOf(n), r))
  /\ UNCHANGED <<contactRequests, users, faults>>

\* line 216: await User.findById(agentId): the agent document as stored now
RateFindAgent(r) ==
  /\ req[r].pc = "r_findAgent"
  /\ LET a == FindUserById(req[r].agentId)
         doc == IF a = "null" THEN NullDoc
                ELSE [found |-> TRUE, rating |-> users[a].rating,
                      totalRatings |-> users[a].totalRatings]
     IN req' = [req EXCEPT ![r] = [Logged(@, "User.findById", @.agentId) EXCEPT
                                     !.agentDoc = doc, !.pc = "r_findAll"]]
  /\ UNCHANGED <<contactRequests, ratings, users, faults>>

\* history: the requests whose Rating documents a read returned
Authors(docs) == {docs[i].by : i \in 1..Len(docs)}

\* mutant: the read filters on the whole triple, as the duplicate lookup does
RateFindAllOwnTriple(r) ==
  /\ req[r].pc = "r_findAll"
  /\ LET ofAgent == FindByAgent(ratings, req[r].agentId)
         allRatings == SelectSeq(ofAgent, LAMBDA d :
                          d.client = req[r].user /\ d.property = req[r].propertyId)
         totalRating == SumRatings(allRatings)
         avgRating == Quotient(totalRating, Len(allRatings))
         q == [Logged(req[r], "Rating.find", req[r].agentId) EXCEPT
                 !.seen = Authors(allRatings)]
     IN IF ~q.agentDoc.found
        THEN /\ req' = [req EXCEPT ![r] = Respond(q, "error")]
        ELSE /\ req' = [req EXCEPT ![r] = [q EXCEPT !.avgRating = avgRating,
                                             !.total = Len(allRatings),
                                             !.pc = "r_saveAgent"]]
  /\ UNCHANGED <<contactRequests, ratings, users, faults>>

\* lines 217-222: await Rating.find({agent}), sum, average, assignment to
\* the agent document (a TypeError when findById gave null)
RateFindAll(r) ==
  /\ req[r].pc = "r_findAll"
  /\ LET allRatings == FindByAgent(ratings, req[r].agentId)
         totalRating == SumRatings(allRatings)
         avgRating == Quotient(totalRating, Len(allRatings))
         q == [Logged(req[r], "Rating.find", req[r].agentId) EXCEPT
                 !.seen = Authors(allRatings)]
     IN IF ~q.agentDoc.found
        THEN /\ req' = [req EXCEPT ![r] = Respond(q, "error")]
        ELSE /\ req' = [req EXCEPT ![r] = [q EXCEPT !.avgRating = avgRating,
                                             !.total = Len(allRatings),
                                             !.pc = "r_saveAgent"]]
  /\ UNCHANGED <<contactRequests, ratings, users, faults>>

\* agent.save() writes the paths whose assigned value differs from the value
\* the document was loaded with
SaveAgent(stored, doc, avgRating, total) ==
  [rating |-> IF avgRating # doc.rating THEN avgRating ELSE stored.rating,
   totalRatings |-> IF total # doc.totalRatings THEN total ELSE stored.totalRatings]

\* lines 223-226: await agent.save(), success flash and redirect
RateSaveAgent(r) ==
  /\ req[r].pc = "r_saveAgent"
  /\ users' = [users EXCEPT ![req[r].agentId] =
                 SaveAgent(@, req[r].agentDoc, req[r].avgRating, req[r].total)]
  /\ req' = [req EXCEPT ![r] = Respond(Logged(@, "User.save", @.agentId), "success")]
  /\ UNCHANGED <<contactRequests, ratings, faults>>

(* ---------------- GET /rate/:agentId ---------------- *)
\* lines 151-153: the handler starts and issues the agent lookup
GetRateStart(r, in) ==
  /\ MayStart(r)
  /\ req' = [req EXCEPT ![r] = [@ EXCEPT !.kind = "get", !.user = in.user,
                                         !.agentId = in.agentId, !.before = Done,
                                         !.pc = "g_findAgent"]]
  /\ UNCHANGED <<contactRequests, ratings, users, faults>>

\* lines 153-157: await User.findById(req.params.agentId), role check
GetRateFindAgent(r) ==
  /\ req[r].pc = "g_findAgent"
  /\ LET q == [Logged(req[r], "User.findById", req[r].agentId) EXCEPT
                 !.agent = FindUserById(req[r].agentId)]
     IN IF ~CastsToObjectId(q.agentId)
        THEN req' = [req EXCEPT ![r] = Respond(q, "redirect error")]
        ELSE IF q.agent = "null" \/ Role(q.agent) # "agent"
        THEN req' = [req EXCEPT ![r] = Respond(q, "redirect agent not found")]
        ELSE req' = [req EXCEPT ![r] = [q EXCEPT !.pc = "g_findClient"]]
  /\ UNCHANGED <<contactRequests, ratings, users, faults>>

\* mutant: the page does not check that the client has unlocked the agent
GetRateFindClientUnchecked(r) ==
  /\ req[r].pc = "g_findClient"
  /\ LET q == [Logged(req[r], "User.findById", req[r].user) EXCEPT
                 !.client = FindUserById(req[r].user)]
     IN IF q.client = "null"
        THEN req' = [req EXCEPT ![r] = Respond(q, "redirect error")]
        ELSE req' = [req EXCEPT ![r] = [q EXCEPT !.pc = "g_findProperties"]]
  /\ UNCHANGED <<contactRequests, ratings, users, faults>>

\* lines 159-163: await User.findById(req.session.user._id), unlock check
\* (client.unlockedAgents of null is a TypeError that the catch block answers)
GetRateFindClient(r) ==
  /\ req[r].pc = "g_findClient"
  /\ LET q == [Logged(req[r], "User.findById", req[r].user) EXCEPT
                 !.client = FindUserById(req[r].user)]
     IN IF q.client = "null"
        THEN req' = [req EXCEPT ![r] = Respond(q, "redirect error")]
        ELSE IF q.agent \notin UnlockedAgents(q.client)
        THEN req' = [req EXCEPT ![r] = Respond(q, "redirect not unlocked")]
        ELSE req' = [req EXCEPT ![r] = [q EXCEPT !.pc = "g_findProperties"]]
  /\ UNCHANGED <<contactRequests, ratings, users, faults>>

\* lines 166-172: await Property.find({agent}), then the form is rendered
GetRateFindProperties(r) ==
  /\ req[r].pc = "g_findProperties"
  /\ req' = [req EXCEPT ![r] = Respond(Logged(@, "Property.find", @.agentId), "form")]
  /\ UNCHANGED <<contactRequests, ratings, users, faults>>

(* ---------------- failing store calls ---------------- *)
StoreAwaits ==
  {"c_findOne", "c_findClient", "c_findAgent", "c_findProperty", "c_save",
   "r_findOne", "r_save", "r_findAgent", "r_findAll", "r_saveAgent"}

\* mutant: the catch block removes what the request had inserted
StoreFaultRollsBack(r) ==
  /\ req[r].pc \in StoreAwaits
  /\ faults < MaxFaults
  /\ faults' = faults + 1
  /\ req' = [req EXCEPT ![r] = Respond(Logged(@, "store error", @.pc),
                                       IF @.kind = "contact" THEN "500" ELSE "error")]
  /\ ratings' = SelectSeq(ratings, LAMBDA d : d.by # r)
  /\ UNCHANGED <<contactRequests, users>>

\* lines 144-147 and 227-231: the awaited store call rejects without having
\* taken effect and the catch block of the handler answers
StoreFault(r) ==
  /\ req[r].pc \in StoreAwaits
  /\ faults < MaxFaults
  /\ faults' = faults + 1
  /\ req' = [req EXCEPT ![r] = Respond(Logged(@, "store error", @.pc),
                                       IF @.kind = "contact" THEN "500" ELSE "error")]
  /\ UNCHANGED <<contactRequests, ratings, users>>

(* ---------------- specification ---------------- *)
Next ==
  \E r \in Reqs :
    \/ \E in \in ContactInputs : ContactStart(r, in)
    \/ ContactFindOne(r)
    \/ ContactFindClient(r)
    \/ ContactFindAgent(r)
    \/ ContactFindProperty(r)
    \/ ContactSave(r)
    \/ \E ok \in BOOLEAN : ContactSendMail(r, ok)
    \/ \E in \in RateInputs : RateStart(r, in)
    \/ RateFindOne(r)
    \/ RateSave(r)
    \/ RateFindAgent(r)
    \/ RateFindAll(r)
    \/ RateSaveAgent(r)

\* every awaited store call resolves; a mail send resolves or rejects
Spec == Init /\ [][Next]_vars

\* store calls may reject as well
NextFault == Next \/ \E r \in Reqs : StoreFault(r)
FaultSpec == Init /\ [][NextFault]_vars

\* requests of a second client, of a session whose user is gone, for a
\* property that does not exist, for an agent the client has not unlocked,
\* with a rating that is no integer, and for the rating page
MoreContactInputs ==
  {[user |-> "c2", agentId |-> "a1", propertyId |-> "p1"],
   [user |-> "u0", agentId |-> "a1", propertyId |-> "p1"],
   [user |-> "c1", agentId |-> "a1", propertyId |-> "p0"]}

MoreRateInputs ==
  {[user |-> "c1", agentId |-> "a2", propertyId |-> "p1", rating |-> JsStr(<<"5">>)],
   [user |-> "c2", agentId |-> "a1", propertyId |-> "p1", rating |-> JsStr(<<"5">>)],
   [user |-> "c1", agentId |-> "a1", propertyId |-> "p1", rating |-> JsStr(<<"4", ".", "5">>)]}

GetRateInputs ==
  {[user |-> "c1", agentId |-> a] : a \in {"a1", "a2", "c2", "u0", "bad"}}
  \cup {[user |-> "u0", agentId |-> "a1"], [user |-> "c2", agentId |-> "a1"]}

\* the POST handlers with these requests too, and GET /rate/:agentId
NextWide ==
  \/ Next
  \/ \E r \in Reqs :
       \/ \E in \in MoreContactInputs : ContactStart(r, in)
       \/ \E in \in MoreRateInputs : RateStart(r, in)
       \/ \E in \in GetRateInputs : GetRateStart(r, in)
       \/ GetRateFindAgent(r)
       \/ GetRateFindClient(r)
       \/ GetRateFindProperties(r)

WideSpec == Init /\ [][NextWide]_vars

\* the awaited call of request r settles: it resolves or it rejects
Settle(r) ==
  \/ ContactFindOne(r) \/ ContactFindClient(r) \/ ContactFindAgent(r)
  \/ ContactFindProperty(r) \/ ContactSave(r)
  \/ \E ok \in BOOLEAN : ContactSendMail(r, ok)
  \/ RateFindOne(r) \/ RateSave(r) \/ RateFindAgent(r) \/ RateFindAll(r)
  \/ RateSaveAgent(r)
  \/ StoreFault(r)

\* every awaited store and mail call settles, and the event loop then
\* resumes the handler
FairFaultSpec == FaultSpec /\ \A r \in Reqs : WF_vars(Settle(r))

(* ---------------- vocabulary of the properties ---------------- *)
Contacts == {r \in Reqs : req[r].kind = "contact"}
Rates == {r \in Reqs : req[r].kind = "rate"}

InputsOf(r) == [user |-> req[r].user, agentId |-> req[r].agentId,
                propertyId |-> req[r].propertyId]

\* the client, the agent and the property of the request all exist
TripleExists(r) ==
  /\ req[r].user \in ExistingUsers
  /\ req[r].agentId \in ExistingUsers
  /\ req[r].propertyId \in ExistingProperties

\* one of the two requests had responded before the other started
OneAfterTheOther(x, y) == x \in req[y].before \/ y \in req[x].before

\* number of documents of the collection for the triple of request r
CountTriple(coll, r) ==
  Cardinality({i \in 1..Len(coll) :
     /\ coll[i].client = req[r].user
     /\ coll[i].agent = req[r].agentId
     /\ coll[i].property = req[r].propertyId})

\* documents of the collection that request r inserted
InsertedBy(coll, r) == {i \in 1..Len(coll) : coll[i].by = r}

\* request r has logged event e
Did(r, e) == \E i \in 1..Len(req[r].log) : req[r].log[i].ev = e

\* indexes of the Rating documents of agent a, and the sum of their values
RatingsOf(a) == {i \in 1..Len(ratings) : ratings[i].agent = a}

RECURSIVE SumOver(_)
SumOver(is) ==
  IF is = {} THEN 0
  ELSE LET i == CHOOSE j \in is : TRUE IN ratings[i].rating + SumOver(is \ {i})

\* the stored aggregate of agent a is the count and the mean of its ratings
AggregateCorrect(a) ==
  /\ users[a].totalRatings = Cardinality(RatingsOf(a))
  /\ users[a].rating[1] * Cardinality(RatingsOf(a)) = SumOver(RatingsOf(a)) * users[a].rating[2]

\* the rating value of the body is absent, or a number outside [1,5]
AbsentOrOutside(v) ==
  \/ v.t = "undef"
  \/ v.t = "num" /\ (v.neg \/ v.int < 1 \/ v.int > 5 \/ (v.int = 5 /\ v.frac))
  \/ v.t = "str" /\ v.s # <<>> /\ AllDigits(v.s)
       /\ (DigitsValue(v.s, 0) < 1 \/ DigitsValue(v.s, 0) > 5)

\* the rating value of the body is an integer in [1,5]
IntegerInRange(v) ==
  \/ v.t = "num" /\ ~v.neg /\ ~v.frac /\ v.int \in 1..5
  \/ v.t = "str" /\ v.s # <<>> /\ AllDigits(v.s) /\ DigitsValue(v.s, 0) \in 1..5

(* ---------------- C1 ---------------- *)
\* C1: no two ContactRequest documents share the same (client, agent,
\* property) triple, whatever the interleaving of POST /contact-agent.
C1_UniqueContactTriple ==
  \A i, j \in 1..Len(contactRequests) :
    i # j => ~SameTriple(contactRequests[i], contactRequests[j].client,
                         contactRequests[j].agent, contactRequests[j].property)

(* ---------------- C2 ---------------- *)
\* C2: no two Rating documents share the same (client, agent, property)
\* triple, whatever the interleaving of POST /rate/:agentId.
C2_UniqueRatingTriple ==
  \A i, j \in 1..Len(ratings) :
    i # j => ~SameTriple(ratings[i], ratings[j].client, ratings[j].agent,
                         ratings[j].property)

(* ---------------- C3 ---------------- *)
\* no other POST /contact-agent for the triple of r overlaps r
AloneOnTriple(r) ==
  \A x \in Contacts \ {r} : InputsOf(x) = InputsOf(r) => OneAfterTheOther(x, r)

\* C3: for an existing triple without ContactRequest, of two POST
\* /contact-agent run one after the other the first responds success, the
\* second 400 duplicate, and the store holds exactly one document for it.
C3_SecondContactIsDuplicate ==
  \A r2 \in Reqs : \A r1 \in req[r2].before :
    ( /\ req[r1].kind = "contact" /\ req[r2].kind = "contact"
      /\ InputsOf(r1) = InputsOf(r2)
      /\ TripleExists(r1)
      /\ ~req[r1].dupAtStart
      /\ AloneOnTriple(r1) )
    => /\ req[r1].resp = "200"
       /\ CountTriple(contactRequests, r1) = 1
       /\ req[r2].pc = "done" => req[r2].resp = "400 duplicate"

C3_Witness ==
  \E r1, r2 \in Contacts :
    /\ r1 \in req[r2].before
    /\ InputsOf(r1) = InputsOf(r2)
    /\ TripleExists(r1)
    /\ ~req[r1].dupAtStart
    /\ req[r1].resp = "200"
    /\ req[r2].resp = "400 duplicate"
    /\ CountTriple(contactRequests, r1) = 1

(* ---------------- C4 ---------------- *)
\* the POST /rate/:agentId for agent a have all responded, one after the other
RatedInSequence(a) ==
  LET rs == {r \in Rates : req[r].agentId = a}
  IN /\ \A r \in rs : req[r].pc = "done"
     /\ \A x, y \in rs : x # y => OneAfterTheOther(x, y)

\* C4: after submissions that do not overlap in time the agent's
\* totalRatings is the number of its Rating documents and its rating their
\* mean (5 and 3 give rating 4, totalRatings 2).
C4_SequentialAggregate ==
  \A a \in ExistingUsers :
    (RatedInSequence(a) /\ RatingsOf(a) # {}) => AggregateCorrect(a)

C4_Witness ==
  /\ RatedInSequence("a1")
  /\ \E x, y \in Rates : x # y /\ req[x].resp = "success" /\ req[y].resp = "success"
  /\ {ratings[i].rating : i \in RatingsOf("a1")} = {5, 3}
  /\ users["a1"] = [rating |-> <<4, 1>>, totalRatings |-> 2]

(* ---------------- C5 ---------------- *)
\* C5: for any interleaving of submissions for one agent, once all of them
\* have responded the agent's totalRatings is the number of its Rating
\* documents and its rating their mean.
C5_ConcurrentAggregate ==
  \A a \in ExistingUsers :
    ( /\ \A r \in Rates : req[r].agentId = a => req[r].pc = "done"
      /\ RatingsOf(a) # {} )
    => AggregateCorrect(a)

(* ---------------- C6 ---------------- *)
\* C6: a POST /contact-agent whose session client, agentId or propertyId
\* resolves to no record responds 404, inserts no ContactRequest and sends
\* no notification.
C6_UnresolvedIs404 ==
  \A r \in Contacts :
    ( /\ req[r].pc = "done"
      /\ req[r].agentId # "" /\ req[r].propertyId # ""
      /\ ~TripleExists(r) )
    => /\ req[r].resp = "404"
       /\ InsertedBy(contactRequests, r) = {}
       /\ ~Did(r, "sendMail ok") /\ ~Did(r, "sendMail failed")

(* ---------------- C7 ---------------- *)
\* C7: a POST /rate/:agentId whose rating is absent or outside [1,5] is
\* rejected as invalid at once: no Rating is inserted and the agent's
\* rating and totalRatings are not written.
C7_InvalidRatingRejected ==
  \A r \in Rates :
    AbsentOrOutside(req[r].rating)
    => /\ req[r].pc = "done"
       /\ req[r].resp = "invalid rating"
       /\ InsertedBy(ratings, r) = {}
       /\ ~Did(r, "Rating.save") /\ ~Did(r, "User.save")

C7_Witness ==
  \E r \in Rates :
    /\ req[r].rating = JsStr(<<"6">>)
    /\ req[r].resp = "invalid rating"
    /\ req[r].before # {}
    /\ users["a1"].totalRatings = 1

(* ---------------- C8 ---------------- *)
\* C8: a POST /rate/:agentId that starts when a Rating for its triple is
\* stored inserts no Rating and does not write the agent's aggregate; with
\* a rating value in [1,5] it responds duplicate.
C8_DuplicateRatingRejected ==
  \A r \in Rates :
    (req[r].dupAtStart /\ req[r].pc = "done")
    => /\ InsertedBy(ratings, r) = {}
       /\ ~Did(r, "Rating.save") /\ ~Did(r, "User.save")
       /\ req[r].resp \in {"duplicate rating", "invalid rating"}
       /\ IntegerInRange(req[r].rating) => req[r].resp = "duplicate rating"

C8_Witness ==
  \E r \in Rates :
    /\ req[r].dupAtStart
    /\ IntegerInRange(req[r].rating)
    /\ req[r].resp = "duplicate rating"
    /\ req[r].before # {}
    /\ req[r].agentId = "a1"
    /\ AggregateCorrect("a1")

(* ---------------- C9 ---------------- *)
\* C9: a failed notification send never turns the response into an error:
\* a POST /contact-agent one of whose sends failed responds success and its
\* ContactRequest is stored; and a request for a fresh existing triple
\* that no other request for the triple overlaps responds success however
\* the sends end.
C9_MailFailureKeepsSuccess ==
  \A r \in Contacts :
    /\ (req[r].pc = "done" /\ Did(r, "sendMail failed"))
       => req[r].resp = "200" /\ InsertedBy(contactRequests, r) # {}
    /\ ( /\ req[r].pc = "done" /\ TripleExists(r)
         /\ ~req[r].dupAtStart /\ AloneOnTriple(r) )
       => req[r].resp = "200" /\ InsertedBy(contactRequests, r) # {}

C9_Witness ==
  \E r \in Contacts :
    /\ req[r].resp = "200"
    /\ ~req[r].dupAtStart
    /\ ~Did(r, "sendMail ok")
    /\ Cardinality({i \in 1..Len(req[r].log) : req[r].log[i].ev = "sendMail failed"})
         = Len(adminEmails)
    /\ InsertedBy(contactRequests, r) # {}

(* ---------------- C10 ---------------- *)
\* C10: every Rating document that POST /rate/:agentId stores has an
\* integer rating in [1,5], whatever the rating of the request body.
C10_StoredRatingInRange ==
  \A i \in 1..Len(ratings) : ratings[i].rating \in 1..5

(* ---------------- C11 ---------------- *)
\* C11: a POST /contact-agent with agentId or propertyId missing or empty
\* responds 400 before any store call: no lookup, no insert, no mail.
C11_MissingFieldIs400 ==
  \A r \in Contacts :
    (req[r].agentId = "" \/ req[r].propertyId = "")
    => /\ req[r].pc = "done"
       /\ req[r].resp = "400 missing"
       /\ req[r].log = <<Ev("respond", "400 missing")>>
       /\ InsertedBy(contactRequests, r) = {}

C11_Witness ==
  /\ \E r \in Contacts : req[r].agentId = "" /\ req[r].resp = "400 missing"
  /\ \E r \in Contacts : req[r].propertyId = "" /\ req[r].resp = "400 missing"

(* ---------------- C12 ---------------- *)
\* two submissions for one agent that have both stored their Rating and
\* both read all ratings of the agent
BothRead(x, y) ==
  /\ x # y
  /\ req[x].kind = "rate" /\ req[y].kind = "rate"
  /\ req[x].agentId = req[y].agentId
  /\ Did(x, "Rating.find") /\ Did(y, "Rating.find")
  /\ InsertedBy(ratings, x) # {} /\ InsertedBy(ratings, y) # {}

\* C12, as stated of the concurrent submissions a behaviour shows: the read
\* of each (after its own insert) misses the rating the other inserted.
C12_EachReadMissesTheOther ==
  \A x, y \in Rates :
    (BothRead(x, y) /\ ~OneAfterTheOther(x, y))
    => y \notin req[x].seen /\ x \notin req[y].seen

\* C12 amended: in no interleaving do both reads miss; the read of at least
\* one of two submissions for the same agent includes the other's rating.
C12_OneReadSeesTheOther ==
  \A x, y \in Reqs :
    BothRead(x, y) => y \in req[x].seen \/ x \in req[y].seen

C12_Witness ==
  \E x, y \in Rates :
    /\ BothRead(x, y)
    /\ ~OneAfterTheOther(x, y)
    /\ y \notin req[x].seen
    /\ x \in req[y].seen
    /\ req[x].pc = "done" /\ req[y].pc = "done"

(* ---------------- C13 ---------------- *)
IsSend(e) == e.ev \in {"sendMail ok", "sendMail failed"}

\* what request r did after its lookups: insert, sends, response
EffectsOf(r) ==
  SelectSeq(req[r].log, LAMBDA e :
     e.ev = "ContactRequest.save" \/ IsSend(e) \/ e.ev = "respond")

\* es is a prefix of: save, one send per recipient in list order, respond 200
SaveSendsRespond(es) ==
  /\ Len(es) <= Len(adminEmails) + 2
  /\ \A i \in 1..Len(es) :
       IF i = 1 THEN es[i].ev = "ContactRequest.save"
       ELSE IF i <= Len(adminEmails) + 1
            THEN IsSend(es[i]) /\ es[i].arg = adminEmails[i - 1]
            ELSE es[i] = Ev("respond", "200")

\* C13: in a successful POST /contact-agent the document is stored before
\* any send, exactly one send is attempted per recipient in list order
\* whatever the earlier sends gave, and the success response comes after
\* the last send.
C13_SaveThenSendsThenRespond ==
  \A r \in Contacts :
    /\ (Did(r, "ContactRequest.save") \/ Did(r, "sendMail ok") \/ Did(r, "sendMail failed"))
       => /\ SaveSendsRespond(EffectsOf(r))
          /\ InsertedBy(contactRequests, r) # {}
    /\ req[r].resp = "200" => Len(EffectsOf(r)) = Len(adminEmails) + 2

C13_Witness ==
  \E r \in Contacts :
    /\ req[r].resp = "200"
    /\ LET es == EffectsOf(r)
       IN /\ Len(es) = 4
          /\ es[2] = Ev("sendMail failed", adminEmails[1])
          /\ es[3] = Ev("sendMail ok", adminEmails[2])

(* ---------------- C14 ---------------- *)
\* the positions of POST /rate/:agentId after newRating.save() has resolved
AfterRatingSaved == {"r_findAgent", "r_findAll", "r_saveAgent"}

\* request r leaves the handler in this step because a store call rejected
\* or because the agent lookup had given null
FailsAfterSave(r) ==
  /\ req[r].pc \in AfterRatingSaved
  /\ req'[r].pc = "done"
  /\ Did(r, "store error")' \/ req[r].agentId \notin ExistingUsers

\* C14: when POST /rate/:agentId fails after its Rating is saved (agent
\* lookup, read of all ratings or agent save rejects, or there is no such
\* agent) it reports the generic error, the Rating stays stored and no
\* agent's rating or totalRatings changes.
C14_NoRollbackAfterSave ==
  [][\A r \in Reqs :
       FailsAfterSave(r)
       => /\ req'[r].resp = "error"
          /\ InsertedBy(ratings, r) # {}
          /\ ratings' = ratings
          /\ users' = users]_vars

C14_Witness ==
  \E r \in Rates :
    /\ req[r].resp = "error"
    /\ req[r].agentId = "a1"
    /\ req[r].log[Len(req[r].log) - 1] = Ev("store error", "r_saveAgent")
    /\ InsertedBy(ratings, r) # {}
    /\ users["a1"].totalRatings = 0

(* ---------------- C16 ---------------- *)
\* old is an initial part of new: new keeps every document of old unchanged
Extends(new, old) == Len(old) <= Len(new) /\ SubSeq(new, 1, Len(old)) = old

\* C16: the ContactRequest and Rating collections only grow, no step
\* changes or removes a stored document, and every ContactRequest has
\* status pending and empty notes from its creation on.
C16_StoresOnlyGrow ==
  [][/\ Extends(contactRequests', contactRequests)
     /\ Extends(ratings', ratings)
     /\ \A i \in 1..Len(contactRequests') :
          contactRequests'[i].status = "pending" /\ contactRequests'[i].notes = ""]_vars

C16_Witness ==
  /\ Len(contactRequests) = 2
  /\ \A i \in 1..2 : contactRequests[i].status = "pending" /\ contactRequests[i].notes = ""
  /\ contactRequests[1].property # contactRequests[2].property
  /\ \A r \in Reqs : req[r].pc = "done"

(* ---------------- C17 ---------------- *)
\* number of responses request r has sent
Responses(r) ==
  Cardinality({i \in 1..Len(req[r].log) : req[r].log[i].ev = "respond"})

\* C17: every invocation of the two POST handlers whose awaited calls all
\* settle sends exactly one response: never two, and in the end one.
C17_ExactlyOneResponse ==
  /\ [](\A r \in Reqs : Responses(r) = IF req[r].pc = "done" THEN 1 ELSE 0)
  /\ \A r \in Reqs :
       (req[r].pc # "idle") ~> (req[r].pc = "done" /\ Responses(r) = 1)

C17_Witness ==
  /\ \E r \in Rates : req[r].pc = "done" /\ Did(r, "store error") /\ Responses(r) = 1
  /\ \E r \in Contacts : req[r].resp = "200" /\ Did(r, "sendMail failed") /\ Responses(r) = 1

(* ---------------- C18 ---------------- *)
\* C18: an agent's totalRatings never decreases: the value a step writes is
\* at least the value it replaces, also when submissions interleave.
C18_TotalRatingsNeverDecreases ==
  [][\A a \in ExistingUsers : users'[a].totalRatings >= users[a].totalRatings]_vars

(* ---------------- C15 ---------------- *)
Gets == {r \in Reqs : req[r].kind = "get"}

\* no other POST /rate/:agentId for the triple of r overlaps r
AloneOnRatingTriple(r) ==
  \A x \in Rates \ {r} : InputsOf(x) = InputsOf(r) => OneAfterTheOther(x, r)

\* C15: POST /rate/:agentId with a rating in [1,5] and no Rating for the
\* triple stores a Rating whether or not the client has unlocked the agent;
\* GET /rate/:agentId renders the form only for an existing agent with role
\* agent that the client has unlocked, and otherwise redirects with an
\* error flash.
C15_OnlyThePageChecksUnlock ==
  /\ \A r \in Rates :
       ( /\ req[r].pc = "done"
         /\ IntegerInRange(req[r].rating)
         /\ ~req[r].dupAtStart
         /\ AloneOnRatingTriple(r) )
       => InsertedBy(ratings, r) # {}
  /\ \A r \in Gets :
       req[r].pc = "done"
       => IF /\ req[r].agentId \in ExistingUsers
             /\ Role(req[r].agentId) = "agent"
             /\ req[r].agentId \in UnlockedAgents(req[r].user)
          THEN req[r].resp = "form"
          ELSE req[r].resp \in {"redirect agent not found", "redirect not unlocked",
                                "redirect error"}

C15_Witness ==
  /\ \E r \in Rates :
       /\ req[r].agentId \notin UnlockedAgents(req[r].user)
       /\ req[r].agentId = "a2"
       /\ req[r].resp = "success"
       /\ InsertedBy(ratings, r) # {}
  /\ \E r \in Gets :
       /\ req[r].user = "c1" /\ req[r].agentId = "a2"
       /\ req[r].resp = "redirect not unlocked"

(* ---------------- C19 ---------------- *)
\* C19: the client of every stored ContactRequest and Rating is the session
\* user of the request that created it, whatever agentId, propertyId and
\* rating the request carried.
C19_ClientIsSessionUser ==
  /\ \A i \in 1..Len(contactRequests) :
       contactRequests[i].client = req[contactRequests[i].by].user
  /\ \A i \in 1..Len(ratings) : ratings[i].client = req[ratings[i].by].user

C19_Witness ==
  \E i, j \in 1..Len(ratings) :
    /\ ratings[i].client = "c1" /\ ratings[j].client = "c2"
    /\ ratings[i].agent = ratings[j].agent
    /\ ratings[i].property = ratings[j].property
    /\ req[ratings[i].by].user = "c1" /\ req[ratings[j].by].user = "c2"

====
